---- MODULE Spec2Model ----
(***************************************************************************)
(* Ticket Tracker API (backend/app/main.py): the in-memory ticket store    *)
(* tickets_db and the request handlers and utility functions over it.      *)
(*                                                                         *)
(* Python values are represented as follows.                               *)
(*   str            a TLA+ string (Len and \o are those of Python)         *)
(*   None           the reserved string None, never used as a text input   *)
(*   dict           tickets_db: the sequence of its values in insertion    *)
(*                  order, each value carrying its key in the field id;    *)
(*                  request payloads and results: functions on their keys  *)
(*   datetime       a natural number of clock ticks                        *)
(*   isoformat text the sequence of its fixed-width fields (see isoformat) *)
(*   uuid4          the n-th call returns n                                *)
(***************************************************************************)
EXTENDS Integers, Sequences, FiniteSets, TLC

VARIABLES
    tickets_db,   \* main.py:54, the store, seeded at import (main.py:104)
    now,          \* the value datetime.utcnow() returns when called
    uuid_count,   \* the number of uuid.uuid4() calls made so far
    ops,          \* the number of requests served so far
    result,       \* the last request and its response
    threads       \* the requests in progress in the worker threads, each
                  \* with its local variables and its place in the handler

vars == <<tickets_db, now, uuid_count, ops, result, threads>>

----------------------------------------------------------------------------
(* Bounds of the model *)

\* requests served in one run
MaxOps == 2
\* clock ticks that pass during one run
MaxTicks == 1
\* clock ticks per second (the clock's resolution within one second)
TicksPerSecond == 2
\* seconds per day
SecondsPerDay == 2

----------------------------------------------------------------------------
(* Python values *)

None == "<None>"

RECURSIVE Rep(_, _)
\* c * n
Rep(c, n) ==
    IF n = 0 THEN ""
    ELSE IF n % 2 = 0 THEN LET h == Rep(c, n \div 2) IN h \o h
    ELSE c \o Rep(c, n - 1)

\* bool(x) of an Optional[str]: None and "" are falsy
Truthy(x) == x # None /\ x # ""

Range(s) == {s[i] : i \in DOMAIN s}

RECURSIVE SeqSum(_)
SeqSum(s) == IF s = <<>> THEN 0 ELSE Head(s) + SeqSum(Tail(s))

RECURSIVE SeqMax(_)
SeqMax(s) ==
    IF Len(s) = 1 THEN s[1]
    ELSE LET m == SeqMax(Tail(s)) IN IF s[1] >= m THEN s[1] ELSE m

\* payload.get(key, default)
Field(payload, key, default) ==
    IF key \in DOMAIN payload THEN payload[key] ELSE default

\* the dict {}
EmptyDict == [k \in {} |-> None]

----------------------------------------------------------------------------
(* datetime *)

\* datetime.isoformat(): "YYYY-MM-DDTHH:MM:SS" followed by ".ffffff" only when
\* the microsecond part is not 0. The text is kept as the sequence of its
\* fixed-width, zero-padded fields: the seconds field, then the fraction field.
isoformat(t) ==
    IF t % TicksPerSecond = 0 THEN <<t \div TicksPerSecond>>
    ELSE <<t \div TicksPerSecond, t % TicksPerSecond>>

\* datetime.fromisoformat() on a text isoformat produced
fromisoformat(s) ==
    IF Len(s) = 1 THEN s[1] * TicksPerSecond ELSE s[1] * TicksPerSecond + s[2]

\* Python's str comparison a < b on two such texts: lexicographic, a proper
\* prefix being smaller; fixed-width zero-padded fields compare as numbers.
StrLess(a, b) ==
    \/ a[1] < b[1]
    \/ /\ a[1] = b[1]
       /\ \/ Len(a) < Len(b)
          \/ Len(a) = Len(b) /\ Len(a) = 2 /\ a[2] < b[2]

\* timedelta.days of (later - earlier)
DeltaDays(later, earlier) ==
    LET ticksPerDay == TicksPerSecond * SecondsPerDay IN
    IF later >= earlier THEN (later - earlier) \div ticksPerDay
    ELSE -(((earlier - later) + ticksPerDay - 1) \div ticksPerDay)

calculate_ticket_age_days(created_at, clock) ==
    DeltaDays(clock, fromisoformat(created_at))

----------------------------------------------------------------------------
(* tickets_db as a dict *)

Keys(db) == {db[i].id : i \in DOMAIN db}

\* db[key]
DictGet(db, key) == db[CHOOSE i \in DOMAIN db : db[i].id = key]

\* db[key] = value: an existing key keeps its position, a new key goes last
DictSet(db, key, value) ==
    IF key \in Keys(db)
    THEN [i \in DOMAIN db |-> IF db[i].id = key THEN value ELSE db[i]]
    ELSE Append(db, value)

\* a delete that only hides the entry and leaves it in the dict
DictDel_soft(db, key) == db

\* del db[key]
DictDel(db, key) == LET Other(t) == t.id # key IN SelectSeq(db, Other)

\* uuid.uuid4() when n calls were made before: a value never returned before
uuid4(n) == n + 1

----------------------------------------------------------------------------
(* seed_tickets, main.py:56-104. The seeded timestamps are whole seconds;  *)
(* SeedTime(d) stands for the timestamp on the (25 + d)th of January 2024.  *)

SeedTime(day) == day * TicksPerSecond * SecondsPerDay

seed_tickets ==
    << [id |-> uuid4(0),
        title |-> "Login page not responsive on mobile",
        description |-> "Users report login form not displaying correctly on mobile devices. Buttons are cut off on iPhone 12.",
        status |-> "open", priority |-> "high", assigned_to |-> "Sarah Johnson",
        created_at |-> isoformat(SeedTime(3)), updated_at |-> isoformat(SeedTime(3))],
       [id |-> uuid4(1),
        title |-> "Add dark mode support",
        description |-> "Implement dark mode theme across the application for better user experience during night-time.",
        status |-> "in_progress", priority |-> "medium", assigned_to |-> "Mike Chen",
        created_at |-> isoformat(SeedTime(2)), updated_at |-> isoformat(SeedTime(5))],
       [id |-> uuid4(2),
        title |-> "Database backup automation",
        description |-> "Setup automated daily backups for production database with 30-day retention policy.",
        status |-> "resolved", priority |-> "critical", assigned_to |-> "Alex Martinez",
        created_at |-> isoformat(SeedTime(0)), updated_at |-> isoformat(SeedTime(4))],
       [id |-> uuid4(3),
        title |-> "Update user profile API",
        description |-> "Add ability to upload profile pictures and update bio information.",
        status |-> "open", priority |-> "low", assigned_to |-> None,
        created_at |-> isoformat(SeedTime(1)), updated_at |-> isoformat(SeedTime(1))] >>

\* the clock when the first request arrives: after every seeded timestamp
StartTime == SeedTime(6)

----------------------------------------------------------------------------
(* Data models, main.py:27-48 *)

MinTitleLen == 3
MaxTitleLen == 200
MinDescriptionLen == 10
MaxDescriptionLen == 2000

StatusValues == {"open", "in_progress", "resolved", "closed"}

PriorityValues == {"low", "medium", "high", "critical"}

\* a validation whose lower length bounds are exclusive
TicketCreateValid_exclusive(payload) ==
    /\ "title" \in DOMAIN payload
    /\ "description" \in DOMAIN payload
    /\ Len(payload.title) > MinTitleLen
    /\ Len(payload.title) <= MaxTitleLen
    /\ Len(payload.description) > MinDescriptionLen
    /\ Len(payload.description) <= MaxDescriptionLen

\* pydantic's validation of a request body against TicketCreate
TicketCreateValid(payload) ==
    /\ "title" \in DOMAIN payload
    /\ "description" \in DOMAIN payload
    /\ Len(payload.title) >= MinTitleLen
    /\ Len(payload.title) <= MaxTitleLen
    /\ Len(payload.description) >= MinDescriptionLen
    /\ Len(payload.description) <= MaxDescriptionLen

\* the TicketCreate object built from a valid body
TicketCreate(payload) ==
    [title |-> payload.title,
     description |-> payload.description,
     priority |-> Field(payload, "priority", "medium"),
     assigned_to |-> Field(payload, "assigned_to", None)]

\* pydantic's validation of a request body against TicketUpdate: the length
\* constraints apply to a value that is present and not None
TicketUpdateValid(payload) ==
    /\ Field(payload, "title", None) # None =>
          /\ Len(payload.title) >= MinTitleLen
          /\ Len(payload.title) <= MaxTitleLen
    /\ Field(payload, "description", None) # None =>
          /\ Len(payload.description) >= MinDescriptionLen
          /\ Len(payload.description) <= MaxDescriptionLen

\* the TicketUpdate object built from a valid body
TicketUpdate(payload) ==
    [title |-> Field(payload, "title", None),
     description |-> Field(payload, "description", None),
     status |-> Field(payload, "status", None),
     priority |-> Field(payload, "priority", None),
     assigned_to |-> Field(payload, "assigned_to", None)]

----------------------------------------------------------------------------
(* Requests the model issues *)

TitleInputs ==
    {Rep("t", MinTitleLen - 1), Rep("t", MinTitleLen),
     Rep("t", MaxTitleLen), Rep("t", MaxTitleLen + 1)}

DescriptionInputs ==
    {Rep("d", MinDescriptionLen - 1), Rep("d", MinDescriptionLen),
     Rep("d", MaxDescriptionLen), Rep("d", MaxDescriptionLen + 1)}

GoodTitle == Rep("t", MinTitleLen)

GoodDescription == Rep("d", MinDescriptionLen)

CreateInputs ==
    {[title |-> t, description |-> GoodDescription] : t \in TitleInputs}
    \cup {[title |-> GoodTitle, description |-> d] : d \in DescriptionInputs}
    \cup {[title |-> Rep("t", MaxTitleLen + 1),
           description |-> Rep("d", MinDescriptionLen - 1)]}
    \cup {[title |-> GoodTitle, description |-> GoodDescription, priority |-> p]
            : p \in {"high", "urgent", ""}}
    \cup {[title |-> GoodTitle, description |-> GoodDescription,
           assigned_to |-> "Bob"],
          [title |-> Rep("t", MaxTitleLen), description |-> Rep("d", MaxDescriptionLen),
           priority |-> "critical", assigned_to |-> "Sarah Johnson"]}

UpdateInputs ==
    {EmptyDict,
     [title |-> Rep("u", MaxTitleLen)],
     [description |-> Rep("e", MinDescriptionLen)],
     [status |-> "closed"], [status |-> ""], [status |-> "pending"],
     [priority |-> "low"], [priority |-> ""],
     [assigned_to |-> "Bob"], [assigned_to |-> ""],
     [title |-> None, status |-> "resolved", assigned_to |-> None],
     [title |-> Rep("u", MinTitleLen), description |-> Rep("e", MaxDescriptionLen),
      status |-> "in_progress", priority |-> "critical",
      assigned_to |-> "Mike Chen"],
     [title |-> ""],
     [title |-> Rep("u", MaxTitleLen + 1), priority |-> "low"],
     [description |-> Rep("e", MinDescriptionLen - 1), status |-> "closed"]}

\* an id no uuid4 call returns
MissingId == uuid4(0) - 1

\* the ids a request may name: every id ever issued, live or deleted, and one
\* that never was
IdInputs == {MissingId} \cup {uuid4(n) : n \in 0..(uuid_count - 1)}

StatusFilterInputs == {None, "", "open", "closed", "pending"}

PriorityFilterInputs == {None, "", "high", "urgent"}

TeamInputs ==
    {<<>>,
     <<"Sarah Johnson">>,
     <<"Sarah Johnson", "Bob">>,
     <<"Bob", "Sarah Johnson">>,
     <<"Mike Chen", "Alex Martinez">>,
     <<"Alex Martinez", "Mike Chen">>,
     <<"Carol", "Bob">>,
     <<"Bob", "Bob", "Carol">>}

BulkIdInputs ==
    {<<>>, <<uuid4(0)>>, <<MissingId>>,
     <<uuid4(0), MissingId, uuid4(2)>>,
     <<uuid4(1), uuid4(1)>>,
     <<uuid4(4), MissingId, uuid4(3), uuid4(4), MissingId>>}

BulkUpdateInputs ==
    {EmptyDict,
     [status |-> "closed"],
     [assigned_to |-> "Bob"],
     [priority |-> "low", assigned_to |-> None],
     [status |-> "pending", title |-> "renamed"],
     [status |-> "resolved", priority |-> "urgent", assigned_to |-> ""]}

MaxDaysInputs == {0, 1, 7}

----------------------------------------------------------------------------
(* Utility functions, main.py:111-249 *)

\* get_overdue_tickets, main.py:136-147
get_overdue_tickets(db, max_days, clock) ==
    LET Overdue(ticket) ==
            /\ ticket.status = "open"
            /\ calculate_ticket_age_days(ticket.created_at, clock) > max_days
    IN SelectSeq(db, Overdue)

RECURSIVE DictFromKeys(_)
\* the keys of {member: 0 for member in team_members}, in dict order: each
\* member once, at the place of its first occurrence
DictFromKeys(team_members) ==
    IF team_members = <<>> THEN <<>>
    ELSE LET init == DictFromKeys(SubSeq(team_members, 1, Len(team_members) - 1))
             last == team_members[Len(team_members)]
         IN IF last \in Range(init) THEN init ELSE Append(init, last)

\* assignment_counts after the counting loop of main.py:162-165, as the
\* sequence of its items
assignment_counts(db, team_members) ==
    LET keys == DictFromKeys(team_members)
    IN [i \in DOMAIN keys |->
          <<keys[i], Cardinality({j \in DOMAIN db : db[j].assigned_to = keys[i]})>>]

RECURSIVE MinLast(_)
\* a minimum that prefers the later of two equal items
MinLast(items) ==
    IF Len(items) = 1 THEN items[1]
    ELSE LET best == MinLast(SubSeq(items, 1, Len(items) - 1))
             item == items[Len(items)]
         IN IF item[2] <= best[2] THEN item ELSE best

RECURSIVE MinByCount(_)
\* min(items, key=lambda x: x[1]): the running best is replaced only by a
\* strictly smaller item
MinByCount(items) ==
    IF Len(items) = 1 THEN items[1]
    ELSE LET best == MinByCount(SubSeq(items, 1, Len(items) - 1))
             item == items[Len(items)]
         IN IF item[2] < best[2] THEN item ELSE best

\* an auto-assignment that refreshes updated_at before it looks at the
\* candidate list
assign_ticket_automatically_stamp(db, ticket_id, team_members, clock) ==
    IF ticket_id \notin Keys(db) THEN <<FALSE, db>>
    ELSE LET ticket == DictGet(db, ticket_id)
             stamped == [ticket EXCEPT !.updated_at = isoformat(clock)]
         IN IF team_members = <<>> THEN <<FALSE, DictSet(db, ticket_id, stamped)>>
            ELSE LET least_busy == MinByCount(assignment_counts(db, team_members))
                 IN <<TRUE, DictSet(db, ticket_id,
                                    [stamped EXCEPT !.assigned_to = least_busy[1]])>>

\* an auto-assignment that writes the time into created_at
assign_ticket_automatically_created(db, ticket_id, team_members, clock) ==
    IF ticket_id \notin Keys(db) THEN <<FALSE, db>>
    ELSE IF team_members = <<>> THEN <<FALSE, db>>
    ELSE LET least_busy == MinByCount(assignment_counts(db, team_members))
             ticket == DictGet(db, ticket_id)
             assigned == [ticket EXCEPT !.assigned_to = least_busy[1]]
             stamped == [assigned EXCEPT !.created_at = isoformat(clock)]
         IN <<TRUE, DictSet(db, ticket_id, stamped)>>

\* assign_ticket_automatically, main.py:150-174: <<returned value, store>>
assign_ticket_automatically(db, ticket_id, team_members, clock) ==
    IF ticket_id \notin Keys(db) THEN <<FALSE, db>>
    ELSE IF team_members = <<>> THEN <<FALSE, db>>
    ELSE LET least_busy == MinByCount(assignment_counts(db, team_members))
             ticket == DictGet(db, ticket_id)
             assigned == [ticket EXCEPT !.assigned_to = least_busy[1]]
             stamped == [assigned EXCEPT !.updated_at = isoformat(clock)]
         IN <<TRUE, DictSet(db, ticket_id, stamped)>>

\* len([t for t in tickets if t[field] == value])
CountWhere(tickets, field, value) ==
    Cardinality({i \in DOMAIN tickets : tickets[i][field] = value})

\* the loops of main.py:206-213: one key per listed value
ReportDistribution(tickets, field, values) ==
    [v \in values |-> CountWhere(tickets, field, v)]

\* generate_ticket_report, main.py:177-215
generate_ticket_report(db, status_filter, clock) ==
    LET Matches(t) == t.status = status_filter
        tickets == IF Truthy(status_filter) THEN SelectSeq(db, Matches) ELSE db
        ages == [i \in DOMAIN tickets |->
                   calculate_ticket_age_days(tickets[i].created_at, clock)]
        report == [total_tickets |-> Len(tickets),
                   average_age_days |-> 0,
                   oldest_ticket_days |-> 0,
                   unassigned_count |-> 0,
                   priority_distribution |-> EmptyDict,
                   status_distribution |-> EmptyDict]
    IN IF tickets = <<>> THEN report
       ELSE [report EXCEPT
               !.average_age_days = SeqSum(ages) \div Len(ages),
               !.oldest_ticket_days = SeqMax(ages),
               !.unassigned_count =
                   Cardinality({i \in DOMAIN tickets : ~Truthy(tickets[i].assigned_to)}),
               !.priority_distribution =
                   ReportDistribution(tickets, "priority", PriorityValues),
               !.status_distribution =
                   ReportDistribution(tickets, "status", StatusValues)]

\* the three ifs of main.py:237-242 when every key of updates is copied
BulkApply_all(ticket, updates) ==
    [k \in DOMAIN ticket |-> IF k \in DOMAIN updates THEN updates[k] ELSE ticket[k]]

\* the three ifs of main.py:237-242 on one ticket
BulkApply(ticket, updates) ==
    LET t1 == IF "status" \in DOMAIN updates
              THEN [ticket EXCEPT !.status = updates["status"]] ELSE ticket
        t2 == IF "priority" \in DOMAIN updates
              THEN [t1 EXCEPT !.priority = updates["priority"]] ELSE t1
        t3 == IF "assigned_to" \in DOMAIN updates
              THEN [t2 EXCEPT !.assigned_to = updates["assigned_to"]] ELSE t2
    IN t3

RECURSIVE bulk_update_tickets(_, _, _, _)
\* bulk_update_tickets, main.py:218-249: [results, db] after the loop over
\* ticket_ids. No statement of the try block raises on a ticket of the
\* store, so the except branch (main.py:246-247) is never taken.
bulk_update_tickets(db, ticket_ids, updates, clock) ==
    IF ticket_ids = <<>>
    THEN [results |-> [updated |-> <<>>, failed |-> <<>>, not_found |-> <<>>],
          db |-> db]
    ELSE LET before == bulk_update_tickets(
                           db, SubSeq(ticket_ids, 1, Len(ticket_ids) - 1), updates, clock)
             ticket_id == ticket_ids[Len(ticket_ids)]
         IN IF ticket_id \notin Keys(before.db)
            THEN [before EXCEPT
                    !.results.not_found = Append(@, ticket_id)]
            ELSE LET ticket == BulkApply(DictGet(before.db, ticket_id), updates)
                     stamped == [ticket EXCEPT !.updated_at = isoformat(clock)]
                 IN [results |-> [before.results EXCEPT
                                    !.updated = Append(@, ticket_id)],
                     db |-> DictSet(before.db, ticket_id, stamped)]

----------------------------------------------------------------------------
(* TicketAnalytics, main.py:252-305. A float quotient a / b is kept as the *)
(* pair <<a, b>>.                                                          *)

Completed(db) ==
    LET Done(t) == t.status \in {"resolved", "closed"} IN SelectSeq(db, Done)

get_completion_rate(db) ==
    IF db = <<>> THEN <<0, 1>>
    ELSE <<Len(Completed(db)) * 100, Len(db)>>

get_average_resolution_time(db) ==
    LET resolved == Completed(db)
        times == [i \in DOMAIN resolved |->
                    DeltaDays(fromisoformat(resolved[i].updated_at),
                              fromisoformat(resolved[i].created_at))]
    IN IF resolved = <<>> THEN <<0, 1>> ELSE <<SeqSum(times), Len(times)>>

AssigneeLabel(ticket) ==
    IF Truthy(ticket.assigned_to) THEN ticket.assigned_to ELSE "Unassigned"

get_tickets_by_assignee(db) ==
    [a \in {AssigneeLabel(db[i]) : i \in DOMAIN db} |->
        Cardinality({i \in DOMAIN db : AssigneeLabel(db[i]) = a})]

get_high_priority_open_count(db) ==
    Cardinality({i \in DOMAIN db :
        db[i].status = "open" /\ db[i].priority \in {"high", "critical"}})

----------------------------------------------------------------------------
(* Endpoint functions, main.py:328-416 *)

RECURSIVE SortedInsert(_, _)
\* x placed into a list sorted by created_at descending, after every item
\* whose key is not smaller than its own
SortedInsert(sorted, x) ==
    IF sorted = <<>> THEN <<x>>
    ELSE IF StrLess(sorted[1].created_at, x.created_at)
         THEN <<x>> \o sorted
         ELSE <<sorted[1]>> \o SortedInsert(Tail(sorted), x)

RECURSIVE SortByCreatedDesc(_)
\* tickets.sort(key=lambda x: x["created_at"], reverse=True): a stable sort,
\* items of equal key keep their order
SortByCreatedDesc(tickets) ==
    IF tickets = <<>> THEN <<>>
    ELSE SortedInsert(SortByCreatedDesc(SubSeq(tickets, 1, Len(tickets) - 1)),
                      tickets[Len(tickets)])

\* get_tickets, main.py:328-339
get_tickets(db, status, priority) ==
    LET HasStatus(t) == t.status = status
        HasPriority(t) == t.priority = priority
        byStatus == IF Truthy(status) THEN SelectSeq(db, HasStatus) ELSE db
        byPriority == IF Truthy(priority)
                      THEN SelectSeq(byStatus, HasPriority) ELSE byStatus
    IN SortByCreatedDesc(byPriority)

\* the field assignments of update_ticket when a falsy value is skipped
UpdateApply_truthy(ticket, update) ==
    [k \in DOMAIN ticket |->
        IF k \in DOMAIN update /\ Truthy(update[k]) THEN update[k] ELSE ticket[k]]

\* the field assignments of update_ticket, main.py:376-385
UpdateApply(ticket, update) ==
    LET t1 == IF update.title # None
              THEN [ticket EXCEPT !.title = update.title] ELSE ticket
        t2 == IF update.description # None
              THEN [t1 EXCEPT !.description = update.description] ELSE t1
        t3 == IF update.status # None
              THEN [t2 EXCEPT !.status = update.status] ELSE t2
        t4 == IF update.priority # None
              THEN [t3 EXCEPT !.priority = update.priority] ELSE t3
        t5 == IF update.assigned_to # None
              THEN [t4 EXCEPT !.assigned_to = update.assigned_to] ELSE t4
    IN t5

\* get_stats, main.py:397-416
get_stats(db) ==
    [total |-> Len(db),
     by_status |-> [s \in StatusValues |-> CountWhere(db, "status", s)],
     by_priority |-> [p \in PriorityValues |-> CountWhere(db, "priority", p)]]

----------------------------------------------------------------------------
(* The state machine: one action per request handler *)

\* the response to a request, as the client receives it
Response(op, req, code, body) ==
    [op |-> op, req |-> req, code |-> code, body |-> body]

----------------------------------------------------------------------------
(* The handlers as they run in worker threads. FastAPI runs a handler       *)
(* declared with def in a thread pool, so two requests may be in progress   *)
(* at once; nothing in main.py locks tickets_db. A thread's handler is cut  *)
(* at each read and each write of tickets_db or of a ticket dict. A ticket  *)
(* dict is named by its key: while the key is in tickets_db the dict is the *)
(* stored value, and once the key is deleted the dict lives on in the       *)
(* thread that still refers to it (obj).                                    *)

Threads == {"worker1", "worker2"}

IdleThread ==
    [pc |-> "idle", req |-> None, ref |-> MissingId, obj |-> None,
     writes |-> <<>>, n |-> 0, i |-> 0, counts |-> <<>>, least |-> None,
     results |-> None, response |-> None]

\* the handler's first statement
EntryPoint(op) ==
    CASE op = "update_ticket" -> "update_check"
      [] op = "delete_ticket" -> "delete_check"
      [] op = "auto_assign" -> "assign_check"
      [] op = "bulk_update" -> "bulk_check"

\* the thread that starts to serve req
StartThread(req) ==
    [IdleThread EXCEPT
        !.pc = EntryPoint(req.op),
        !.req = req,
        !.i = 1,
        !.results = [updated |-> <<>>, failed |-> <<>>, not_found |-> <<>>]]

\* the handler returns or raises: the response goes to the client
Finish(db, th, code, body) ==
    [db |-> db,
     th |-> [th EXCEPT !.pc = "done",
                       !.response = [code |-> code, body |-> body]]]

Goto(db, th, pc) == [db |-> db, th |-> [th EXCEPT !.pc = pc]]

\* the ticket dict the thread's local variable ticket refers to
ReadTicket(db, th) ==
    IF th.ref \in Keys(db) THEN DictGet(db, th.ref) ELSE th.obj

\* ticket[field] = value through the thread's local variable ticket
WriteTicket(db, th, field, value) ==
    IF th.ref \in Keys(db)
    THEN [db |-> DictSet(db, th.ref, [DictGet(db, th.ref) EXCEPT ![field] = value]),
          th |-> th]
    ELSE [db |-> db, th |-> [th EXCEPT !.obj = [@ EXCEPT ![field] = value]]]

\* the assignments update_ticket performs, main.py:376-387, in order
UpdateWrites(update, clock) ==
    LET IsSet(f) == update[f] # None
    IN SelectSeq(<<"title", "description", "status", "priority", "assigned_to">>,
                 IsSet)
       \o <<"updated_at">>

\* the value update_ticket assigns to a field
UpdateValue(update, field, clock) ==
    IF field = "updated_at" THEN isoformat(clock) ELSE update[field]

\* the assignments bulk_update_tickets performs on one ticket,
\* main.py:237-244, in order
BulkWrites(updates) ==
    LET IsKey(f) == f \in DOMAIN updates
    IN SelectSeq(<<"status", "priority", "assigned_to">>, IsKey) \o <<"updated_at">>

\* main.py:371-372
StepUpdateCheck(db, th, clock) ==
    IF th.req.ticket_id \notin Keys(db) THEN Finish(db, th, 404, None)
    ELSE Goto(db, th, "update_load")

\* main.py:374; a key deleted since the check raises KeyError
StepUpdateLoad(db, th, clock) ==
    IF th.req.ticket_id \notin Keys(db) THEN Finish(db, th, 500, None)
    ELSE [db |-> db,
          th |-> [th EXCEPT !.ref = th.req.ticket_id,
                            !.writes = UpdateWrites(TicketUpdate(th.req.update), clock),
                            !.pc = "update_write"]]

\* one assignment of main.py:376-387
StepUpdateWrite(db, th, clock) ==
    LET field == Head(th.writes)
        written == WriteTicket(db, th, field,
                       UpdateValue(TicketUpdate(th.req.update), field, clock))
    IN [db |-> written.db,
        th |-> [written.th EXCEPT
                  !.writes = Tail(th.writes),
                  !.pc = IF Tail(th.writes) = <<>> THEN "update_return"
                         ELSE "update_write"]]

\* main.py:388: the ticket dict is returned and serialised
StepUpdateReturn(db, th, clock) == Finish(db, th, 200, ReadTicket(db, th))

\* main.py:393-394
StepDeleteCheck(db, th, clock) ==
    IF th.req.ticket_id \notin Keys(db) THEN Finish(db, th, 404, None)
    ELSE Goto(db, th, "delete_del")

\* main.py:395; a key deleted since the check raises KeyError
StepDeleteDel(db, th, clock) ==
    IF th.req.ticket_id \notin Keys(db) THEN Finish(db, th, 500, None)
    ELSE Finish(DictDel(db, th.req.ticket_id), th, 204, None)

\* main.py:155-162; the endpoint turns False into a 400, main.py:445-446
StepAssignCheck(db, th, clock) ==
    IF th.req.ticket_id \notin Keys(db) THEN Finish(db, th, 400, None)
    ELSE IF th.req.team_members = <<>> THEN Finish(db, th, 400, None)
    ELSE LET keys == DictFromKeys(th.req.team_members)
         IN [db |-> db,
             th |-> [th EXCEPT !.counts = [k \in DOMAIN keys |-> <<keys[k], 0>>],
                               !.n = Len(db),
                               !.i = 1,
                               !.pc = "assign_tally"]]

\* one turn of the loop of main.py:163-165, then main.py:168; the iterator
\* raises RuntimeError when the dict changed size since the loop began
StepAssignTally(db, th, clock) ==
    IF Len(db) # th.n THEN Finish(db, th, 500, None)
    ELSE IF th.i > th.n
    THEN [db |-> db,
          th |-> [th EXCEPT !.least = MinByCount(th.counts)[1],
                            !.pc = "assign_write"]]
    ELSE [db |-> db,
          th |-> [th EXCEPT
                    !.counts = [k \in DOMAIN th.counts |->
                                  IF th.counts[k][1] = db[th.i].assigned_to
                                  THEN <<th.counts[k][1], th.counts[k][2] + 1>>
                                  ELSE th.counts[k]],
                    !.i = th.i + 1]]

\* main.py:171; a key deleted since the check raises KeyError
StepAssignWrite(db, th, clock) ==
    IF th.req.ticket_id \notin Keys(db) THEN Finish(db, th, 500, None)
    ELSE Goto(DictSet(db, th.req.ticket_id,
                      [DictGet(db, th.req.ticket_id) EXCEPT !.assigned_to = th.least]),
              th, "assign_stamp")

\* main.py:172-174
StepAssignStamp(db, th, clock) ==
    IF th.req.ticket_id \notin Keys(db) THEN Finish(db, th, 500, None)
    ELSE Finish(DictSet(db, th.req.ticket_id,
                        [DictGet(db, th.req.ticket_id) EXCEPT
                            !.updated_at = isoformat(clock)]),
                th, 200, th.req.ticket_id)

\* main.py:229-232 and, after the last id, main.py:249
StepBulkCheck(db, th, clock) ==
    IF th.i > Len(th.req.ticket_ids) THEN Finish(db, th, 200, th.results)
    ELSE IF th.req.ticket_ids[th.i] \notin Keys(db)
    THEN [db |-> db,
          th |-> [th EXCEPT !.results.not_found = Append(@, th.req.ticket_ids[th.i]),
                            !.i = th.i + 1]]
    ELSE Goto(db, th, "bulk_load")

\* main.py:235; the KeyError of a key deleted since the check is caught at
\* main.py:246-247
StepBulkLoad(db, th, clock) ==
    IF th.req.ticket_ids[th.i] \notin Keys(db)
    THEN [db |-> db,
          th |-> [th EXCEPT !.results.failed = Append(@, th.req.ticket_ids[th.i]),
                            !.i = th.i + 1,
                            !.pc = "bulk_check"]]
    ELSE [db |-> db,
          th |-> [th EXCEPT !.ref = th.req.ticket_ids[th.i],
                            !.writes = BulkWrites(th.req.updates),
                            !.pc = "bulk_write"]]

\* one assignment of main.py:237-244, and main.py:245 after the last
StepBulkWrite(db, th, clock) ==
    LET field == Head(th.writes)
        written == WriteTicket(db, th, field,
                       IF field = "updated_at" THEN isoformat(clock)
                       ELSE th.req.updates[field])
    IN IF Tail(th.writes) # <<>>
       THEN [db |-> written.db, th |-> [written.th EXCEPT !.writes = Tail(th.writes)]]
       ELSE [db |-> written.db,
             th |-> [written.th EXCEPT
                       !.writes = <<>>,
                       !.results.updated = Append(@, th.req.ticket_ids[th.i]),
                       !.i = th.i + 1,
                       !.pc = "bulk_check"]]

\* the next statement of the thread's handler
ThreadStep(db, th, clock) ==
    CASE th.pc = "update_check" -> StepUpdateCheck(db, th, clock)
      [] th.pc = "update_load" -> StepUpdateLoad(db, th, clock)
      [] th.pc = "update_write" -> StepUpdateWrite(db, th, clock)
      [] th.pc = "update_return" -> StepUpdateReturn(db, th, clock)
      [] th.pc = "delete_check" -> StepDeleteCheck(db, th, clock)
      [] th.pc = "delete_del" -> StepDeleteDel(db, th, clock)
      [] th.pc = "assign_check" -> StepAssignCheck(db, th, clock)
      [] th.pc = "assign_tally" -> StepAssignTally(db, th, clock)
      [] th.pc = "assign_write" -> StepAssignWrite(db, th, clock)
      [] th.pc = "assign_stamp" -> StepAssignStamp(db, th, clock)
      [] th.pc = "bulk_check" -> StepBulkCheck(db, th, clock)
      [] th.pc = "bulk_load" -> StepBulkLoad(db, th, clock)
      [] th.pc = "bulk_write" -> StepBulkWrite(db, th, clock)

RECURSIVE RunToEnd(_, _, _)
\* the handler run from the thread's place to its end with no other thread
\* in between
RunToEnd(db, th, clock) ==
    IF th.pc = "done" THEN [db |-> db, th |-> th]
    ELSE LET next == ThreadStep(db, th, clock) IN RunToEnd(next.db, next.th, clock)

\* the requests two clients send at the same time
ConcurrentRequests ==
    {[op |-> "update_ticket", ticket_id |-> k, update |-> u] :
        k \in {uuid4(0), uuid4(3)},
        u \in {[status |-> "closed"], [assigned_to |-> "Bob"],
               [status |-> "resolved", priority |-> "low"]}}
    \cup {[op |-> "delete_ticket", ticket_id |-> k] : k \in {uuid4(0), uuid4(3)}}
    \cup {[op |-> "auto_assign", ticket_id |-> k, team_members |-> team] :
            k \in {uuid4(0), uuid4(3)},
            team \in {<<"Bob", "Carol">>, <<"Sarah Johnson", "Bob">>}}
    \cup {[op |-> "bulk_update", ticket_ids |-> ks, updates |-> u] :
            ks \in {<<uuid4(3)>>, <<uuid4(0), uuid4(3)>>},
            u \in {[status |-> "closed"], [assigned_to |-> "Bob"]}}

Init ==
    /\ tickets_db = seed_tickets
    /\ uuid_count = Len(seed_tickets)
    /\ now = StartTime
    /\ ops = 0
    /\ result = Response("startup", None, 0, None)
    /\ threads = [t \in Threads |-> IdleThread]

\* time passes between two requests
Tick ==
    /\ ops < MaxOps
    /\ now < StartTime + MaxTicks
    /\ now' = now + 1
    /\ UNCHANGED <<tickets_db, uuid_count, ops, result, threads>>

\* GET /api/tickets
get_tickets_endpoint ==
    \E status \in StatusFilterInputs, priority \in PriorityFilterInputs :
        /\ ops < MaxOps
        /\ ops' = ops + 1
        /\ UNCHANGED threads
        /\ result' = Response("get_tickets", [status |-> status, priority |-> priority],
                              200, get_tickets(tickets_db, status, priority))
        /\ UNCHANGED <<tickets_db, uuid_count, now>>

\* GET /api/tickets/{ticket_id}
get_ticket ==
    \E ticket_id \in IdInputs :
        /\ ops < MaxOps
        /\ ops' = ops + 1
        /\ UNCHANGED threads
        /\ result' = IF ticket_id \notin Keys(tickets_db)
                     THEN Response("get_ticket", ticket_id, 404, None)
                     ELSE Response("get_ticket", ticket_id, 200,
                                   DictGet(tickets_db, ticket_id))
        /\ UNCHANGED <<tickets_db, uuid_count, now>>

\* POST /api/tickets
create_ticket ==
    \E payload \in CreateInputs :
        /\ ops < MaxOps
        /\ ops' = ops + 1
        /\ UNCHANGED threads
        /\ UNCHANGED now
        /\ IF ~TicketCreateValid(payload)
           THEN /\ result' = Response("create_ticket", payload, 422, None)
                /\ UNCHANGED <<tickets_db, uuid_count>>
           ELSE LET ticket == TicketCreate(payload)
                    ticket_id == uuid4(uuid_count)
                    stamp == isoformat(now)
                    new_ticket == [id |-> ticket_id,
                                   title |-> ticket.title,
                                   description |-> ticket.description,
                                   status |-> "open",
                                   priority |-> ticket.priority,
                                   assigned_to |-> ticket.assigned_to,
                                   created_at |-> stamp,
                                   updated_at |-> stamp]
                IN /\ uuid_count' = uuid_count + 1
                   /\ tickets_db' = DictSet(tickets_db, ticket_id, new_ticket)
                   /\ result' = Response("create_ticket", payload, 201, new_ticket)

\* PUT /api/tickets/{ticket_id}
update_ticket ==
    \E ticket_id \in IdInputs, payload \in UpdateInputs :
        /\ ops < MaxOps
        /\ ops' = ops + 1
        /\ UNCHANGED threads
        /\ UNCHANGED <<uuid_count, now>>
        /\ LET req == [ticket_id |-> ticket_id, update |-> payload] IN
           IF ~TicketUpdateValid(payload)
           THEN /\ result' = Response("update_ticket", req, 422, None)
                /\ UNCHANGED tickets_db
           ELSE IF ticket_id \notin Keys(tickets_db)
           THEN /\ result' = Response("update_ticket", req, 404, None)
                /\ UNCHANGED tickets_db
           ELSE LET applied == UpdateApply(DictGet(tickets_db, ticket_id),
                                           TicketUpdate(payload))
                    ticket == [applied EXCEPT !.updated_at = isoformat(now)]
                IN /\ tickets_db' = DictSet(tickets_db, ticket_id, ticket)
                   /\ result' = Response("update_ticket", req, 200, ticket)

\* DELETE /api/tickets/{ticket_id}
delete_ticket ==
    \E ticket_id \in IdInputs :
        /\ ops < MaxOps
        /\ ops' = ops + 1
        /\ UNCHANGED threads
        /\ UNCHANGED <<uuid_count, now>>
        /\ IF ticket_id \notin Keys(tickets_db)
           THEN /\ result' = Response("delete_ticket", ticket_id, 404, None)
                /\ UNCHANGED tickets_db
           ELSE /\ tickets_db' = DictDel(tickets_db, ticket_id)
                /\ result' = Response("delete_ticket", ticket_id, 204, None)

\* GET /api/stats
get_stats_endpoint ==
    /\ ops < MaxOps
    /\ ops' = ops + 1
    /\ UNCHANGED threads
    /\ result' = Response("get_stats", None, 200, get_stats(tickets_db))
    /\ UNCHANGED <<tickets_db, uuid_count, now>>

\* GET /api/tickets/overdue/list
get_overdue_tickets_endpoint ==
    \E max_days \in MaxDaysInputs :
        /\ ops < MaxOps
        /\ ops' = ops + 1
        /\ UNCHANGED threads
        /\ LET overdue == get_overdue_tickets(tickets_db, max_days, now)
           IN result' = Response("get_overdue_tickets", max_days, 200,
                                 [count |-> Len(overdue), max_days |-> max_days,
                                  tickets |-> overdue])
        /\ UNCHANGED <<tickets_db, uuid_count, now>>

\* POST /api/tickets/{ticket_id}/auto-assign
auto_assign_endpoint ==
    \E ticket_id \in IdInputs, team_members \in TeamInputs :
        /\ ops < MaxOps
        /\ ops' = ops + 1
        /\ UNCHANGED threads
        /\ UNCHANGED <<uuid_count, now>>
        /\ LET req == [ticket_id |-> ticket_id, team_members |-> team_members]
               outcome == assign_ticket_automatically(
                              tickets_db, ticket_id, team_members, now)
           IN /\ tickets_db' = outcome[2]
              /\ result' = IF ~outcome[1]
                           THEN Response("auto_assign", req, 400, None)
                           ELSE Response("auto_assign", req, 200, ticket_id)

\* GET /api/reports/detailed
detailed_report_endpoint ==
    \E status \in StatusFilterInputs :
        /\ ops < MaxOps
        /\ ops' = ops + 1
        /\ UNCHANGED threads
        /\ result' = Response("detailed_report", status, 200,
                              generate_ticket_report(tickets_db, status, now))
        /\ UNCHANGED <<tickets_db, uuid_count, now>>

\* POST /api/tickets/bulk-update
bulk_update_endpoint ==
    \E ticket_ids \in BulkIdInputs, updates \in BulkUpdateInputs :
        /\ ops < MaxOps
        /\ ops' = ops + 1
        /\ UNCHANGED threads
        /\ UNCHANGED <<uuid_count, now>>
        /\ LET outcome == bulk_update_tickets(tickets_db, ticket_ids, updates, now)
           IN /\ tickets_db' = outcome.db
              /\ result' = Response("bulk_update",
                                    [ticket_ids |-> ticket_ids, updates |-> updates],
                                    200, outcome.results)

\* GET /api/analytics/overview
analytics_overview ==
    /\ ops < MaxOps
    /\ ops' = ops + 1
    /\ UNCHANGED threads
    /\ result' = Response("analytics_overview", None, 200,
                          [completion_rate |-> get_completion_rate(tickets_db),
                           average_resolution_time_days |->
                               get_average_resolution_time(tickets_db),
                           tickets_by_assignee |-> get_tickets_by_assignee(tickets_db),
                           high_priority_open |->
                               get_high_priority_open_count(tickets_db)])
    /\ UNCHANGED <<tickets_db, uuid_count, now>>

Next ==
    \/ Tick
    \/ get_tickets_endpoint
    \/ get_ticket
    \/ create_ticket
    \/ update_ticket
    \/ delete_ticket
    \/ get_stats_endpoint
    \/ get_overdue_tickets_endpoint
    \/ auto_assign_endpoint
    \/ detailed_report_endpoint
    \/ bulk_update_endpoint
    \/ analytics_overview

Spec == Init /\ [][Next]_vars

----------------------------------------------------------------------------
(* Two requests served at once by the thread pool                           *)

\* the dicts that leave tickets_db stay alive in the threads that hold them
Detach(db, newdb, th) ==
    IF th.ref \in Keys(db) /\ th.ref \notin Keys(newdb)
    THEN [th EXCEPT !.obj = DictGet(db, th.ref)]
    ELSE th

\* thread t runs the next statement of its handler
RunStatement(t) ==
    LET next == ThreadStep(tickets_db, threads[t], now)
    IN /\ tickets_db' = next.db
       /\ threads' = [o \in Threads |->
                        IF o = t THEN next.th
                        ELSE Detach(tickets_db, next.db, threads[o])]
       /\ UNCHANGED <<now, uuid_count, ops, result>>

\* a worker thread takes a request from the server
accept_request ==
    \E t \in Threads, req \in ConcurrentRequests :
        /\ threads[t].pc = "idle"
        /\ threads' = [threads EXCEPT ![t] = StartThread(req)]
        /\ UNCHANGED <<tickets_db, now, uuid_count, ops, result>>

worker_update_ticket ==
    \E t \in Threads :
        /\ threads[t].pc \in {"update_check", "update_load", "update_write",
                              "update_return"}
        /\ RunStatement(t)

worker_delete_ticket ==
    \E t \in Threads :
        /\ threads[t].pc \in {"delete_check", "delete_del"}
        /\ RunStatement(t)

worker_auto_assign ==
    \E t \in Threads :
        /\ threads[t].pc \in {"assign_check", "assign_tally", "assign_write",
                              "assign_stamp"}
        /\ RunStatement(t)

worker_bulk_update ==
    \E t \in Threads :
        /\ threads[t].pc \in {"bulk_check", "bulk_load", "bulk_write"}
        /\ RunStatement(t)

NextConc ==
    \/ accept_request
    \/ worker_update_ticket
    \/ worker_delete_ticket
    \/ worker_auto_assign
    \/ worker_bulk_update

SpecConc == Init /\ [][NextConc]_vars

----------------------------------------------------------------------------
(* Properties *)

\* the step just taken served a request of this kind
Served(op) == ops' = ops + 1 /\ result'.op = op

\* every id uuid4 has returned so far
Issued == {uuid4(n) : n \in 0..(uuid_count - 1)}

Ids(tickets) == {tickets[i].id : i \in DOMAIN tickets}

IndexOf(db, key) == CHOOSE i \in DOMAIN db : db[i].id = key

RECURSIVE SetSum(_, _)
\* the sum of f over the set S
SetSum(f, S) ==
    IF S = {} THEN 0
    ELSE LET x == CHOOSE y \in S : TRUE IN f[x] + SetSum(f, S \ {x})

DictSum(f) == SetSum(f, DOMAIN f)

TicketFields ==
    {"id", "title", "description", "status", "priority", "assigned_to",
     "created_at", "updated_at"}

\* every ticket of db other than the one with this id is in after, unchanged
\* and at the same place
OthersUnchanged(db, after, key) ==
    /\ Len(after) = Len(db)
    /\ \A i \in DOMAIN db : db[i].id # key => after[i] = db[i]

\* C1: in every reachable state every live ticket has a status among open,
\* in_progress, resolved, closed and a priority among low, medium, high,
\* critical.
C1_EnumeratedFields ==
    \A i \in DOMAIN tickets_db :
        /\ tickets_db[i].status \in {"open", "in_progress", "resolved", "closed"}
        /\ tickets_db[i].priority \in {"low", "medium", "high", "critical"}

\* C2: in every reachable state get_stats returns total equal to the number
\* of live tickets, by_status with exactly the four status keys, by_priority
\* with exactly the four priority keys, and the counts of each sum to total.
C2_StatsSumToTotal ==
    LET stats == get_stats(tickets_db) IN
    /\ stats.total = Cardinality(Keys(tickets_db))
    /\ DOMAIN stats.by_status = {"open", "in_progress", "resolved", "closed"}
    /\ DOMAIN stats.by_priority = {"low", "medium", "high", "critical"}
    /\ DictSum(stats.by_status) = stats.total
    /\ DictSum(stats.by_priority) = stats.total

\* C3: create succeeds exactly when the title has 3 to 200 characters and the
\* description 10 to 2000, and fails with a validation error otherwise; on
\* success the store gains exactly one ticket, under an id that was not live,
\* with status open, the supplied priority (medium when omitted), the
\* supplied assigned_to and created_at equal to updated_at.
C3_CreateContract ==
    [][Served("create_ticket") =>
        LET payload == result'.req
            inBounds == /\ Len(payload.title) >= 3 /\ Len(payload.title) <= 200
                        /\ Len(payload.description) >= 10
                        /\ Len(payload.description) <= 2000
        IN /\ (result'.code = 201) <=> inBounds
           /\ ~inBounds => result'.code = 422
           /\ inBounds =>
                LET new_ticket == result'.body IN
                /\ new_ticket.id \notin Keys(tickets_db)
                /\ Keys(tickets_db') = Keys(tickets_db) \cup {new_ticket.id}
                /\ Len(tickets_db') = Len(tickets_db) + 1
                /\ \A key \in Keys(tickets_db) :
                       DictGet(tickets_db', key) = DictGet(tickets_db, key)
                /\ DictGet(tickets_db', new_ticket.id) = new_ticket
                /\ new_ticket.title = payload.title
                /\ new_ticket.description = payload.description
                /\ new_ticket.status = "open"
                /\ new_ticket.priority =
                       (IF "priority" \in DOMAIN payload
                        THEN payload.priority ELSE "medium")
                /\ new_ticket.assigned_to =
                       (IF "assigned_to" \in DOMAIN payload
                        THEN payload.assigned_to ELSE None)
                /\ new_ticket.created_at = new_ticket.updated_at
    ]_vars

\* C3 witness: a ticket was created from a title of exactly 3 characters and
\* no priority, and is in the store with priority medium.
C3_Witness ==
    /\ result.op = "create_ticket"
    /\ result.code = 201
    /\ Len(result.req.title) = 3
    /\ "priority" \notin DOMAIN result.req
    /\ result.body.id \in Keys(tickets_db)
    /\ DictGet(tickets_db, result.body.id).priority = "medium"

\* C4: a successful update sets each of title, description, status, priority
\* and assigned_to that is present and not None to the supplied value (the
\* empty string included), leaves the other fields, id and created_at as they
\* were, sets updated_at to the current time, and leaves every other ticket
\* unchanged.
C4_UpdateFrame ==
    [][(Served("update_ticket") /\ result'.code = 200) =>
        LET key == result'.req.ticket_id
            update == result'.req.update
            Present(f) == f \in DOMAIN update /\ update[f] # None
        IN /\ key \in Keys(tickets_db)
           /\ OthersUnchanged(tickets_db, tickets_db', key)
           /\ LET old == DictGet(tickets_db, key)
                  new == tickets_db'[IndexOf(tickets_db, key)]
              IN /\ \A f \in {"title", "description", "status", "priority",
                              "assigned_to"} :
                        new[f] = IF Present(f) THEN update[f] ELSE old[f]
                 /\ new.id = key
                 /\ new.created_at = old.created_at
                 /\ new.updated_at = isoformat(now)
                 /\ result'.body = new
    ]_vars

\* C4 witness: an update whose status is the empty string succeeded and the
\* ticket's status now is the empty string.
C4_Witness ==
    /\ result.op = "update_ticket"
    /\ result.code = 200
    /\ "status" \in DOMAIN result.req.update
    /\ result.req.update.status = ""
    /\ DictGet(tickets_db, result.req.ticket_id).status = ""

\* C5: a successful delete removes the ticket; from then on the id stays
\* absent: get and a second delete of it answer 404, no query result holds it,
\* and get_stats, the analytics, the detailed report and the auto_assign
\* tally count live tickets only.
C5_DeletedStaysGone ==
    [][LET gone == Issued \ Keys(tickets_db)
           live == Keys(tickets_db')
       IN /\ (Served("delete_ticket") /\ result'.code = 204) =>
                 /\ result'.req \in Keys(tickets_db)
                 /\ live = Keys(tickets_db) \ {result'.req}
                 /\ Len(tickets_db') = Len(tickets_db) - 1
          /\ gone \cap live = {}
          /\ (Served("delete_ticket") /\ result'.req \in gone) => result'.code = 404
          /\ (Served("get_ticket") /\ result'.req \in gone) => result'.code = 404
          /\ Served("get_tickets") => Ids(result'.body) \cap gone = {}
          /\ Ids(get_tickets(tickets_db', None, None)) = live
          /\ get_stats(tickets_db').total = Cardinality(live)
          /\ generate_ticket_report(tickets_db', None, now').total_tickets
                 = Cardinality(live)
          /\ DictSum(get_tickets_by_assignee(tickets_db')) = Cardinality(live)
          /\ get_completion_rate(tickets_db')[2] = IF live = {} THEN 1 ELSE Cardinality(live)
          /\ \A team \in TeamInputs :
                LET counts == assignment_counts(tickets_db', team) IN
                \A i \in DOMAIN counts :
                    counts[i][2] = Cardinality({key \in live :
                        DictGet(tickets_db', key).assigned_to = counts[i][1]})
    ]_vars

\* C5 witness: a delete of an id that was issued earlier and deleted since
\* answered 404.
C5_Witness ==
    /\ result.op = "delete_ticket"
    /\ result.code = 404
    /\ result.req \in Issued
    /\ result.req \notin Keys(tickets_db)

\* C6: a query returns exactly the live tickets whose status equals the
\* status filter, when one is provided, and whose priority equals the priority
\* filter, when one is provided, each once, ordered by created_at descending,
\* tickets of equal created_at in the order of their insertion into the store.
C6_QueryContract ==
    result.op = "get_tickets" =>
        LET status == result.req.status
            priority == result.req.priority
            body == result.body
            matching == {t \in Range(tickets_db) :
                            /\ status # None => t.status = status
                            /\ priority # None => t.priority = priority}
        IN /\ Range(body) = matching
           /\ Len(body) = Cardinality(matching)
           /\ \A i, j \in DOMAIN body :
                i < j =>
                  /\ ~StrLess(body[i].created_at, body[j].created_at)
                  /\ body[i].created_at = body[j].created_at =>
                       IndexOf(tickets_db, body[i].id) < IndexOf(tickets_db, body[j].id)

\* C7: when every ticket of the store has its status and priority in the
\* enumerations, a query whose status filter or priority filter is a text
\* outside the corresponding enumeration (the empty string included) returns
\* an empty list, with no error.
C7_UnknownFilterEmpty ==
    ( /\ result.op = "get_tickets"
      /\ \A i \in DOMAIN tickets_db :
            /\ tickets_db[i].status \in StatusValues
            /\ tickets_db[i].priority \in PriorityValues
      /\ \/ result.req.status \notin StatusValues \cup {None}
         \/ result.req.priority \notin PriorityValues \cup {None} )
    => (result.code = 200 /\ result.body = <<>>)

\* the place of the first occurrence of member in team_members
FirstIndex(team_members, member) ==
    CHOOSE i \in DOMAIN team_members :
        /\ team_members[i] = member
        /\ \A j \in DOMAIN team_members : team_members[j] = member => i <= j

\* C8: auto_assign on a live ticket with a non-empty candidate list assigns the
\* ticket to a candidate with the fewest live tickets assigned (counted over
\* the whole store as it is at the call), the first such candidate of the
\* list; it changes no other ticket and no other field but updated_at.
C8_AutoAssignLeastBusy ==
    [][( /\ Served("auto_assign")
         /\ result'.req.ticket_id \in Keys(tickets_db)
         /\ result'.req.team_members # <<>> ) =>
        LET key == result'.req.ticket_id
            team == result'.req.team_members
            Load(m) == Cardinality({i \in DOMAIN tickets_db :
                                       tickets_db[i].assigned_to = m})
            old == DictGet(tickets_db, key)
            new == tickets_db'[IndexOf(tickets_db, key)]
            chosen == new.assigned_to
        IN /\ result'.code = 200
           /\ chosen \in Range(team)
           /\ \A m \in Range(team) :
                /\ Load(chosen) <= Load(m)
                /\ Load(m) = Load(chosen) =>
                      FirstIndex(team, chosen) <= FirstIndex(team, m)
           /\ OthersUnchanged(tickets_db, tickets_db', key)
           /\ \A f \in TicketFields \ {"assigned_to", "updated_at"} : new[f] = old[f]
           /\ new.updated_at = isoformat(now)
    ]_vars

\* C8 witness: a ticket was auto-assigned among two candidates, went to the
\* first of the list, and that candidate now holds exactly one ticket more
\* than the second: their loads were equal at the call.
C8_Witness ==
    /\ result.op = "auto_assign"
    /\ result.code = 200
    /\ result.req.team_members = <<"Alex Martinez", "Mike Chen">>
    /\ DictGet(tickets_db, result.req.ticket_id).assigned_to = "Alex Martinez"
    /\ CountWhere(tickets_db, "assigned_to", "Alex Martinez")
         = CountWhere(tickets_db, "assigned_to", "Mike Chen") + 1

\* C9: bulk_update handles the ids in input order: updated, failed and
\* not_found are pairwise disjoint and hold every input position once;
\* not_found holds the ids absent from the store, updated the ids present;
\* an updated ticket has the keys of updates among status, priority and
\* assigned_to overwritten, updated_at refreshed, and nothing else changed.
C9_BulkUpdatePartition ==
    [][Served("bulk_update") =>
        LET ticket_ids == result'.req.ticket_ids
            updates == result'.req.updates
            results == result'.body
            Present(key) == key \in Keys(tickets_db)
            Absent(key) == key \notin Keys(tickets_db)
        IN /\ Range(results.updated) \cap Range(results.failed) = {}
           /\ Range(results.updated) \cap Range(results.not_found) = {}
           /\ Range(results.failed) \cap Range(results.not_found) = {}
           /\ Len(results.updated) + Len(results.failed) + Len(results.not_found)
                = Len(ticket_ids)
           /\ results.not_found = SelectSeq(ticket_ids, Absent)
           /\ results.updated = SelectSeq(ticket_ids, Present)
           /\ Len(tickets_db') = Len(tickets_db)
           /\ \A i \in DOMAIN tickets_db :
                LET old == tickets_db[i]
                    new == tickets_db'[i]
                IN IF old.id \in Range(ticket_ids)
                   THEN /\ \A f \in {"status", "priority", "assigned_to"} :
                              new[f] = IF f \in DOMAIN updates
                                       THEN updates[f] ELSE old[f]
                        /\ \A f \in {"id", "title", "description", "created_at"} :
                              new[f] = old[f]
                        /\ new.updated_at = isoformat(now)
                   ELSE new = old
    ]_vars

\* C9 witness: bulk_update of a live id, an absent id and another live id
\* with a new status reported the two live ids as updated, in input order,
\* and the absent one as not found, and both live tickets have the status.
C9_Witness ==
    /\ result.op = "bulk_update"
    /\ result.req.ticket_ids = <<uuid4(0), MissingId, uuid4(2)>>
    /\ result.req.updates = [status |-> "closed"]
    /\ result.body = [updated |-> <<uuid4(0), uuid4(2)>>, failed |-> <<>>,
                      not_found |-> <<MissingId>>]
    /\ DictGet(tickets_db, uuid4(0)).status = "closed"
    /\ DictGet(tickets_db, uuid4(2)).status = "closed"

\* C10: the detailed report always has priority and status distributions with
\* every enumeration member as a key; over an empty filtered set its total,
\* average age, oldest age and unassigned count are 0 and every distribution
\* entry is 0; over a non-empty one its total is the number of tickets
\* matching the filter and the distributions count the filtered tickets.
C10_ReportShape ==
    result.op = "detailed_report" =>
        LET status_filter == result.req
            report == result.body
            filtered == {i \in DOMAIN tickets_db :
                            status_filter # None =>
                                tickets_db[i].status = status_filter}
        IN /\ DOMAIN report.priority_distribution = PriorityValues
           /\ DOMAIN report.status_distribution = StatusValues
           /\ report.total_tickets = Cardinality(filtered)
           /\ \A p \in PriorityValues :
                report.priority_distribution[p] =
                    Cardinality({i \in filtered : tickets_db[i].priority = p})
           /\ \A s \in StatusValues :
                report.status_distribution[s] =
                    Cardinality({i \in filtered : tickets_db[i].status = s})
           /\ filtered = {} =>
                /\ report.average_age_days = 0
                /\ report.oldest_ticket_days = 0
                /\ report.unassigned_count = 0

\* the lengths of a title and a description that are present and not None are
\* within their bounds
LengthsInBounds(payload) ==
    /\ Field(payload, "title", None) # None =>
          (Len(payload.title) >= 3 /\ Len(payload.title) <= 200)
    /\ Field(payload, "description", None) # None =>
          (Len(payload.description) >= 10 /\ Len(payload.description) <= 2000)

\* C11: an operation that fails leaves the whole store as it was: get, update,
\* delete and auto_assign on an absent id, auto_assign with an empty candidate
\* list, and create or update with a title or description outside its length
\* bounds are answered with an error and write no field of any ticket
\* (updated_at included), insert nothing and remove nothing.
C11_FailureLeavesStore ==
    [][LET Fails == result'.code >= 400 /\ tickets_db' = tickets_db
       IN /\ (Served("get_ticket") /\ result'.req \notin Keys(tickets_db)) => Fails
          /\ (Served("delete_ticket") /\ result'.req \notin Keys(tickets_db)) => Fails
          /\ ( /\ Served("update_ticket")
               /\ \/ result'.req.ticket_id \notin Keys(tickets_db)
                  \/ ~LengthsInBounds(result'.req.update) ) => Fails
          /\ ( /\ Served("auto_assign")
               /\ \/ result'.req.ticket_id \notin Keys(tickets_db)
                  \/ result'.req.team_members = <<>> ) => Fails
          /\ (Served("create_ticket") /\ ~LengthsInBounds(result'.req)) => Fails
          /\ (ops' = ops + 1 /\ result'.code >= 400) => tickets_db' = tickets_db
    ]_vars

\* C11 witness: an auto_assign of a live ticket with an empty candidate list
\* was refused as the second request of a run, and the store is still the
\* seeded one.
C11_Witness ==
    /\ result.op = "auto_assign"
    /\ result.code = 400
    /\ result.req.team_members = <<>>
    /\ result.req.ticket_id \in Keys(tickets_db)
    /\ tickets_db = seed_tickets
    /\ ops = 2

\* created_at is not later than updated_at on every ticket of db
CreatedBeforeUpdated(db) ==
    \A i \in DOMAIN db :
        fromisoformat(db[i].created_at) <= fromisoformat(db[i].updated_at)

\* C12: with a clock that never goes back, every live ticket has created_at
\* not later than updated_at in every reachable state; the two are equal
\* right after create; every successful update (one with no field present
\* included), bulk_update and auto_assign sets updated_at to the current
\* time, so that it never decreases; no operation changes a ticket's
\* created_at or id.
C12_TimestampsOrdered ==
    /\ CreatedBeforeUpdated(tickets_db)
    /\ [][/\ now' >= now
          /\ CreatedBeforeUpdated(tickets_db')
          /\ \A key \in Keys(tickets_db) \cap Keys(tickets_db') :
                LET old == DictGet(tickets_db, key)
                    new == DictGet(tickets_db', key)
                IN /\ new.created_at = old.created_at
                   /\ fromisoformat(new.updated_at) >= fromisoformat(old.updated_at)
          /\ \A i \in DOMAIN tickets_db' :
                \/ tickets_db'[i].id \in Keys(tickets_db)
                \/ /\ Served("create_ticket")
                   /\ tickets_db'[i].created_at = isoformat(now)
                   /\ tickets_db'[i].updated_at = tickets_db'[i].created_at
          /\ (Served("update_ticket") /\ result'.code = 200) =>
                DictGet(tickets_db', result'.req.ticket_id).updated_at = isoformat(now)
          /\ (Served("auto_assign") /\ result'.code = 200) =>
                DictGet(tickets_db', result'.req.ticket_id).updated_at = isoformat(now)
          /\ Served("bulk_update") =>
                \A key \in Range(result'.body.updated) :
                    DictGet(tickets_db', key).updated_at = isoformat(now)
       ]_vars

\* C12 witness: an update with no field present succeeded on a seeded ticket
\* after the clock had advanced, and the ticket's updated_at is the current
\* time, later than its created_at.
C12_Witness ==
    /\ result.op = "update_ticket"
    /\ result.code = 200
    /\ result.req.update = EmptyDict
    /\ now > StartTime
    /\ LET ticket == DictGet(tickets_db, result.req.ticket_id)
       IN /\ ticket.updated_at = isoformat(now)
          /\ fromisoformat(ticket.created_at) < fromisoformat(ticket.updated_at)


----------------------------------------------------------------------------
(* C13: two concurrent requests and their serial executions                 *)

\* the store and the two responses when first runs to its end before second
\* starts, from the store the server starts with
SerialOutcome(first, second) ==
    LET a == RunToEnd(seed_tickets, StartThread(first), StartTime)
        b == RunToEnd(a.db, StartThread(second), StartTime)
    IN [db |-> a.db, final |-> b.db, first |-> a.th.response,
        second |-> b.th.response]

\* the same status code and, with it, the same body
SameResponse(a, b) == a.code = b.code /\ a.body = b.body

\* the store and the responses are those of running r1 and r2 one after
\* the other, in one of the two orders
Serializable(db, r1, resp1, r2, resp2) ==
    LET s12 == SerialOutcome(r1, r2)
        s21 == SerialOutcome(r2, r1)
    IN \/ /\ db = s12.final
          /\ SameResponse(resp1, s12.first)
          /\ SameResponse(resp2, s12.second)
       \/ /\ db = s21.final
          /\ SameResponse(resp2, s21.first)
          /\ SameResponse(resp1, s21.second)

\* C13: when two requests among update, delete, auto_assign and bulk_update
\* have run concurrently, interleaved at the reads and writes of tickets_db,
\* and both have ended, the store and the two responses equal those of a
\* serial execution of the two requests in one of the two orders.
C13_Serializable ==
    (\A t \in Threads : threads[t].pc = "done")
        => Serializable(tickets_db,
                        threads["worker1"].req, threads["worker1"].response,
                        threads["worker2"].req, threads["worker2"].response)

====
